---- MODULE Spec2Model ----
(***************************************************************************)
(* bevy_iced: the per-window renderer lifecycle, the UI cycle              *)
(* (IcedContext::display_in_window), the extraction of the frame data into *)
(* the render world (extract_iced_data) and the render-graph node          *)
(* (IcedNode), as a state machine.                                         *)
(*                                                                         *)
(* Two threads of control exist.  The logic world runs the window          *)
(* handlers, the input system and the display calls one after the other    *)
(* (they take exclusive access to the same resources).  The render world   *)
(* runs IcedNode::update and IcedNode::run after every extraction, and may *)
(* do so while the logic world already works on its next frame: this is    *)
(* why a renderer is an Arc<Mutex<..>> and a draw flag an Arc<AtomicBool>. *)
(* The extraction is the rendezvous of the two: it runs when neither a     *)
(* display call nor a node run is in progress.                             *)
(***************************************************************************)
EXTENDS Integers, Sequences, FiniteSets, TLC

\* ------------------------------------------------------------------ bounds
\* The number of UI cycles (display_in_window calls that reach the draw).
MaxFrames == 3
\* The length of the pending input event queue.
MaxQueue == 2
\* The number of input events queued in all.
MaxEvents == 3

\* ---------------------------------------------------------------- universes
\* Window entities of the host.
Entities == {"w1", "w2"}
\* The entity that carries the host's PrimaryWindow marker.
PrimaryWindow == {"w1"}
\* Message types (TypeId of M) an IcedContext<M> is used with.
MessageTypes == {"M1", "M2"}
\* Raw input events of the pending queue.
InputEvents == {"click", "move"}
\* UI descriptions (elements) a caller passes to display.
Elements == {"text", "button"}
\* Renderer instances (Arc allocations) and frames of primitives are
\* numbered in the order of their creation.
RendererIds == 1..MaxFrames
FrameIds == 1..MaxFrames

\* ------------------------------------------------------------------ Option
None == <<>>
Some(x) == <<x>>
IsSome(o) == o # <<>>
Unwrap(o) == o[1]

\* ------------------------------------------------------- windows, viewports
\* A host Window: its physical size and its native scale factor.
Window(pw, ph, sf) == [physical_width |-> pw, physical_height |-> ph, scale_factor |-> sf]
HostWindows == {Window(800, 600, 1), Window(1600, 1200, 2)}
\* The values IcedSettings::scale_factor takes.
ScaleFactors == {None, Some(2)}

\* Viewport::with_physical_size: the logical size is the physical size
\* divided by the scale factor.
with_physical_size(pw, ph, sf) ==
    [physical_size |-> <<pw, ph>>,
     logical_size |-> <<pw \div sf, ph \div sf>>,
     scale_factor |-> sf]

\* A viewport that always takes the window's own scale factor.
get_window_viewport_native(window, scale_setting) ==
    with_physical_size(window.physical_width, window.physical_height, window.scale_factor)

\* get_window_viewport: the override of the settings if set, else the
\* window's own scale factor.
get_window_viewport(window, scale_setting) ==
    LET scale_factor == IF IsSome(scale_setting) THEN Unwrap(scale_setting)
                        ELSE window.scale_factor
    IN with_physical_size(window.physical_width, window.physical_height, scale_factor)


\* -------------------------------------------------------------------- state
VARIABLES
    \* -- the logic world
    window,         \* entity -> Option(Window): the host's Window component
    viewport,       \* entity -> Option(Viewport): the WindowViewport component
    did_draw,       \* entity -> Option(BOOLEAN): the DidDraw component (the atomic flag)
    despawned,      \* the entities the host has despawned (an entity id is never reused)
    closed_events,  \* the entities with a WindowClosed event not yet read
    scale_setting,  \* IcedSettings::scale_factor
    renderers,      \* IcedRenderers: entity -> Option(renderer instance)
    cache,          \* IcedCache::cache: message type -> Option(Option(cache))
    events,         \* IcedEventQueue: the pending input events
    channel,        \* message type -> the messages sent to the host's Events<M>
    \* -- the renderer instances (shared by both worlds)
    n_renderers,    \* the number of renderer instances created so far
    n_frames,       \* the number of frames of primitives drawn so far
    primitives,     \* renderer instance -> the frame its primitives hold (0: none)
    lock,           \* renderer instance -> who holds its mutex
    \* -- a display_in_window call in progress
    pc,             \* "idle", or "locked": a call holds the lock of its renderer
    call,           \* the locals of the call
    \* -- the render world
    extracted,      \* ExtractedIcedWindows: entity -> Option([viewport, did_draw])
    r_renderers,    \* the render world's copy of IcedRenderers
    x_windows,      \* the host's ExtractedWindows: the entities extracted as windows
    node_pc,        \* "idle", "update", "run"
    visited,        \* the extracted windows the loop of IcedNode::run has passed
    node_cur,       \* the window whose renderer the loop holds locked, if any
    belt,           \* the staging belt's operations of the current frame
    presented,      \* every backend.present call so far: [window, renderer, frame]
    \* -- failure
    panicked,       \* the place of the panic that ended the program, if any
    \* -- history (read by the properties only)
    last_call,      \* the entry point of the last display call of the frame, if any
    disp_count,     \* entity -> completed display_in_window calls
    true_count,     \* entity -> extractions that captured did_draw = true
    drawn_since,    \* entity -> a display_in_window call completed since the last extraction
    drawn_fresh,    \* the same, since the last extraction or window-created event
    last_used,      \* entity -> the renderer of its last completed display call since a close
    retired,        \* entity -> the renderer instances handle_window_closed removed for it
    swept,          \* the retired instances that an extraction has run after
    n_queued,       \* the input events process_input has queued so far
    n_applied,      \* the input events passed to the update of a UI so far
    seen_scale      \* entity -> IcedSettings::scale_factor when its last window event was handled

logic_vars == <<window, viewport, did_draw, despawned, closed_events, scale_setting, renderers,
                cache, events, channel>>
renderer_vars == <<n_renderers, n_frames, primitives, lock>>
call_vars == <<pc, call>>
render_vars == <<extracted, r_renderers, x_windows, node_pc, visited, node_cur, belt,
                 presented>>
event_history == <<n_queued, n_applied, seen_scale>>
history_vars == <<last_call, disp_count, true_count, drawn_since, drawn_fresh, last_used,
                  retired, swept, event_history>>
vars == <<logic_vars, renderer_vars, call_vars, render_vars, panicked, history_vars>>

NoPanic == [at |-> "", window |-> ""]

NoCall == [window |-> "", message |-> "", element |-> "", renderer |-> 0,
           cache |-> 0]

\* Plugin::build and Plugin::finish: empty registries, default settings, no
\* window yet; the render world holds nothing before the first extraction.
\* `entries` is the cache map the program starts with.
InitWith(entries) ==
    /\ window = [w \in Entities |-> None]
    /\ viewport = [w \in Entities |-> None]
    /\ did_draw = [w \in Entities |-> None]
    /\ despawned = {}
    /\ closed_events = {}
    /\ scale_setting = None
    /\ renderers = [w \in Entities |-> None]
    /\ cache = entries
    /\ events = <<>>
    /\ channel = [m \in MessageTypes |-> <<>>]
    /\ n_renderers = 0
    /\ n_frames = 0
    /\ primitives = [r \in RendererIds |-> 0]
    /\ lock = [r \in RendererIds |-> "free"]
    /\ pc = "idle"
    /\ call = NoCall
    /\ extracted = [w \in Entities |-> None]
    /\ r_renderers = [w \in Entities |-> None]
    /\ x_windows = {}
    /\ node_pc = "idle"
    /\ visited = {}
    /\ node_cur = None
    /\ belt = <<>>
    /\ presented = <<>>
    /\ panicked = NoPanic
    /\ last_call = ""
    /\ disp_count = [w \in Entities |-> 0]
    /\ true_count = [w \in Entities |-> 0]
    /\ drawn_since = [w \in Entities |-> FALSE]
    /\ drawn_fresh = [w \in Entities |-> FALSE]
    /\ last_used = [w \in Entities |-> None]
    /\ retired = [w \in Entities |-> {}]
    /\ swept = {}
    /\ n_queued = 0
    /\ n_applied = 0
    /\ seen_scale = [w \in Entities |-> None]

\* IcedCache::default(): the cache map is empty.
Init == InitWith([m \in MessageTypes |-> None])

\* The program runs until a panic; the logic world runs one system at a time.
Running == panicked = NoPanic
LogicIdle == Running /\ pc = "idle"


\* ------------------------------------------------------ the window handlers
\* The host gives entity w a Window and sends WindowCreated, which
\* handle_window_created reads: it inserts a fresh DidDraw (false) and the
\* viewport of the window.  The host sends the event once per created window;
\* an entity that lost its Window component without being despawned can be
\* given a new one.
handle_window_created(w, win) ==
    /\ LogicIdle
    /\ window[w] = None
    /\ w \notin despawned
    /\ window' = [window EXCEPT ![w] = Some(win)]
    /\ did_draw' = [did_draw EXCEPT ![w] = Some(FALSE)]
    /\ viewport' = [viewport EXCEPT ![w] = Some(get_window_viewport(win, scale_setting))]
    /\ drawn_fresh' = [drawn_fresh EXCEPT ![w] = FALSE]
    /\ seen_scale' = [seen_scale EXCEPT ![w] = scale_setting]
    /\ UNCHANGED <<despawned, closed_events, scale_setting, renderers, cache, events,
                   channel>>
    /\ UNCHANGED <<renderer_vars, call_vars, render_vars, panicked>>
    /\ UNCHANGED <<last_call, disp_count, true_count, drawn_since, last_used, retired,
                   swept, n_queued, n_applied>>

\* The host resizes the window of w and sends WindowResized, which
\* handle_window_resized reads: it inserts the viewport of the window as it
\* is now.
handle_window_resized(w, win) ==
    /\ LogicIdle
    /\ IsSome(window[w])
    /\ window' = [window EXCEPT ![w] = Some(win)]
    /\ viewport' = [viewport EXCEPT ![w] = Some(get_window_viewport(win, scale_setting))]
    /\ seen_scale' = [seen_scale EXCEPT ![w] = scale_setting]
    /\ UNCHANGED <<did_draw, despawned, closed_events, scale_setting, renderers, cache,
                   events, channel>>
    /\ UNCHANGED <<renderer_vars, call_vars, render_vars, panicked>>
    /\ UNCHANGED <<last_call, disp_count, true_count, drawn_since, drawn_fresh, last_used,
                   retired, swept, n_queued, n_applied>>

\* IcedSettings::set_scale_factor.
set_scale_factor(factor) ==
    /\ LogicIdle
    /\ factor # scale_setting
    /\ scale_setting' = factor
    /\ UNCHANGED <<window, viewport, did_draw, despawned, closed_events, renderers,
                   cache, events, channel>>
    /\ UNCHANGED <<renderer_vars, call_vars, render_vars, panicked, history_vars>>

\* The host closes the window of w: the entity loses its Window component,
\* or is despawned with all its components, and WindowClosed is sent.
window_closed(w, despawn) ==
    /\ LogicIdle
    /\ IsSome(window[w])
    /\ window' = [window EXCEPT ![w] = None]
    /\ viewport' = [viewport EXCEPT ![w] = IF despawn THEN None ELSE @]
    /\ did_draw' = [did_draw EXCEPT ![w] = IF despawn THEN None ELSE @]
    /\ despawned' = IF despawn THEN despawned \cup {w} ELSE despawned
    /\ closed_events' = closed_events \cup {w}
    /\ UNCHANGED <<scale_setting, renderers, cache, events, channel>>
    /\ UNCHANGED <<renderer_vars, call_vars, render_vars, panicked, history_vars>>

\* A removal that leaves the entry of the window in the registry.
remove_nothing(map, w) == map

\* HashMap::remove of the registry.
remove(map, w) == [map EXCEPT ![w] = None]

\* handle_window_closed reads a WindowClosed event: the renderer of the
\* window leaves the registry of the logic world.
handle_window_closed(w) ==
    /\ LogicIdle
    /\ w \in closed_events
    /\ closed_events' = closed_events \ {w}
    /\ renderers' = remove(renderers, w)
    /\ retired' = IF IsSome(renderers[w])
                  THEN [retired EXCEPT ![w] = @ \cup {Unwrap(renderers[w])}]
                  ELSE retired
    /\ last_used' = [last_used EXCEPT ![w] = None]
    /\ UNCHANGED <<window, viewport, did_draw, despawned, scale_setting, cache, events,
                   channel>>
    /\ UNCHANGED <<renderer_vars, call_vars, render_vars, panicked>>
    /\ UNCHANGED <<last_call, disp_count, true_count, drawn_since, drawn_fresh, swept,
                   event_history>>

\* systems::process_input: one raw input event joins the pending queue.
process_input(ev) ==
    /\ LogicIdle
    /\ Len(events) < MaxQueue
    /\ n_queued < MaxEvents
    /\ events' = Append(events, ev)
    /\ n_queued' = n_queued + 1
    /\ UNCHANGED <<window, viewport, did_draw, despawned, closed_events, scale_setting,
                   renderers, cache, channel>>
    /\ UNCHANGED <<renderer_vars, call_vars, render_vars, panicked>>
    /\ UNCHANGED <<last_call, disp_count, true_count, drawn_since, drawn_fresh, last_used,
                   retired, swept, n_applied, seen_scale>>


\* ------------------------------------------------------------- the UI cycle
\* The `windows` query of IcedContext: (&Window, &WindowViewport, &DidDraw).
windows_get(w) == IsSome(window[w]) /\ IsSome(viewport[w]) /\ IsSome(did_draw[w])

\* The primary window query without its With<PrimaryWindow> filter.
any_window == {w \in Entities : IsSome(viewport[w])}

\* The `primary_window` query of IcedContext:
\* (With<PrimaryWindow>, With<WindowViewport>).
primary_window == {w \in PrimaryWindow : IsSome(viewport[w])}

\* Query::get_single: the one entity of the query, if it holds exactly one.
get_single(query) ==
    IF Cardinality(query) = 1 THEN Some(CHOOSE w \in query : TRUE) ELSE None

\* IcedCache::get: the entry of the message type, inserted with a default
\* cache (0) if the map has none.
IcedCache_get(map, m) ==
    IF map[m] = None THEN [map EXCEPT ![m] = Some(Some(0))] ELSE map

\* Option::take followed by unwrap_or_default, on an entry of the cache map.
take_unwrap_or_default(entry) == IF IsSome(entry) THEN Unwrap(entry) ELSE 0

\* display_in_window, lines 245-246: the cache of the message type is taken
\* out of its entry, which is left empty (Some(None)).
cache_take(map, m) ==
    LET entries == IcedCache_get(map, m)
    IN [entries |-> [entries EXCEPT ![m] = Some(None)],
        cache |-> take_unwrap_or_default(Unwrap(entries[m]))]

\* An entry that is not written back.
put_back_nothing(map, m, c) == map

\* An entry that is written back with a default cache.
put_back_default(map, m, c) == [map EXCEPT ![m] = Some(Some(0))]

\* display_in_window, line 272: the entry of the message type holds the
\* cache again.
put_back(map, m, c) == [map EXCEPT ![m] = Some(Some(c))]

\* No new instance: the last one created is handed out again.
init_iced_renderer_again == IF n_renderers = 0 THEN 1 ELSE n_renderers

\* init_iced_renderer inside Arc::new: a new renderer instance.
init_iced_renderer == n_renderers + 1

\* The registry after an insert that does not test contains_key.
get_or_create_always(map, w) == [map EXCEPT ![w] = Some(n_renderers + 1)]

\* The registry after `if !contains_key { insert(new renderer) }`.
get_or_create(map, w) ==
    IF IsSome(map[w]) THEN map ELSE [map EXCEPT ![w] = Some(init_iced_renderer)]

\* A lock() with no regard to the holder of the mutex.
mutex_lock_unguarded(mutex, holder) == [acquired |-> TRUE, mutex |-> holder]

\* Mutex::lock: the mutex is acquired if it is free (else the caller waits).
mutex_lock(mutex, holder) == [acquired |-> mutex = "free", mutex |-> holder]

\* The messages an element emits on one input event.
on_event(element, ev) ==
    IF element = "button" /\ ev = "click" THEN <<"A", "B">> ELSE <<>>

\* UserInterface::update: the messages the events of the queue make the
\* element emit, in the order of the events.
RECURSIVE ui_update(_, _)
ui_update(element, evs) ==
    IF evs = <<>> THEN <<>>
    ELSE on_event(element, Head(evs)) \o ui_update(element, Tail(evs))

\* A batch that is sent from its last message to its first.
send_batch_reversed(sent, messages) ==
    sent \o [i \in 1..Len(messages) |-> messages[Len(messages) + 1 - i]]

\* EventWriter::send_batch: the messages join the host's channel in order.
send_batch(sent, messages) == sent \o messages

\* The pending event queue left as it is.
clear_nothing(queue) == queue

\* Vec::clear of the pending event queue.
clear(queue) == <<>>

\* The lookup of the window moved behind the creation of the renderer: the
\* unwrap panics after the registry has changed.
display_in_window_panic_late(w, op) ==
    /\ LogicIdle
    /\ ~(IsSome(window[w]) /\ IsSome(viewport[w]) /\ IsSome(did_draw[w]))
    /\ renderers' = [renderers EXCEPT ![w] = IF IsSome(@) THEN @ ELSE Some(n_renderers + 1)]
    /\ n_renderers' = IF IsSome(renderers[w]) THEN n_renderers ELSE n_renderers + 1
    /\ panicked' = [at |-> "display_in_window", window |-> w]
    /\ last_call' = op
    /\ UNCHANGED <<window, viewport, did_draw, despawned, closed_events, scale_setting,
                   cache, events, channel>>
    /\ UNCHANGED <<n_frames, primitives, lock, call_vars, render_vars>>
    /\ UNCHANGED <<disp_count, true_count, drawn_since, drawn_fresh, last_used,
                   retired, swept, event_history>>

\* display_in_window, line 228: the window is not in the `windows` query and
\* the unwrap panics.
display_in_window_panic(w, op) ==
    /\ LogicIdle
    /\ ~windows_get(w)
    /\ panicked' = [at |-> "display_in_window", window |-> w]
    /\ last_call' = op
    /\ UNCHANGED <<logic_vars, renderer_vars, call_vars, render_vars>>
    /\ UNCHANGED <<disp_count, true_count, drawn_since, drawn_fresh, last_used,
                   retired, swept, event_history>>

\* display_in_window, lines 228-261: the window is found, the cache of the
\* message type is taken out of its entry, the renderer of the window is
\* created if the registry has none, and its lock is acquired (the call
\* waits while the render node holds it).
display_in_window_enter(element, w, m, op) ==
    /\ LogicIdle
    /\ windows_get(w)
    /\ n_frames < MaxFrames
    /\ LET taken == cache_take(cache, m)
           registry == get_or_create(renderers, w)
           renderer == Unwrap(registry[w])
           locked == mutex_lock(lock[renderer], "display")
       IN /\ locked.acquired
          /\ cache' = taken.entries
          /\ renderers' = registry
          /\ n_renderers' = IF IsSome(renderers[w]) THEN n_renderers
                            ELSE init_iced_renderer
          /\ lock' = [lock EXCEPT ![renderer] = locked.mutex]
          /\ call' = [window |-> w, message |-> m, element |-> element,
                      renderer |-> renderer,
                      cache |-> taken.cache]
    /\ pc' = "locked"
    /\ last_call' = op
    /\ UNCHANGED <<window, viewport, did_draw, despawned, closed_events, scale_setting,
                   events, channel>>
    /\ UNCHANGED <<n_frames, primitives, render_vars, panicked>>
    /\ UNCHANGED <<disp_count, true_count, drawn_since, drawn_fresh, last_used,
                   retired, swept, event_history>>

\* display_in_window, lines 262-277.  In the renderer lock scope the UI is
\* built, updated with the pending events and drawn into the renderer, its
\* cache is stored in the entry and the draw flag is set; the lock is
\* released, the messages are sent, the pending event queue is cleared and
\* the call returns.
display_in_window_locked ==
    /\ Running
    /\ pc = "locked"
    /\ LET messages == ui_update(call.element, events)
       IN channel' = [channel EXCEPT ![call.message] = send_batch(@, messages)]
    /\ n_frames' = n_frames + 1
    /\ primitives' = [primitives EXCEPT ![call.renderer] = n_frames + 1]
    /\ cache' = put_back(cache, call.message, n_frames + 1)
    /\ did_draw' = [did_draw EXCEPT ![call.window] = Some(TRUE)]
    /\ lock' = [lock EXCEPT ![call.renderer] = "free"]
    /\ events' = clear(events)
    /\ pc' = "idle"
    /\ call' = NoCall
    /\ disp_count' = [disp_count EXCEPT ![call.window] = @ + 1]
    /\ drawn_since' = [drawn_since EXCEPT ![call.window] = TRUE]
    /\ drawn_fresh' = [drawn_fresh EXCEPT ![call.window] = TRUE]
    /\ last_used' = [last_used EXCEPT ![call.window] = Some(call.renderer)]
    /\ UNCHANGED <<window, viewport, despawned, closed_events, scale_setting, renderers>>
    /\ UNCHANGED <<n_renderers, render_vars, panicked>>
    /\ n_applied' = n_applied + Len(events)
    /\ UNCHANGED <<last_call, true_count, retired, swept, n_queued, seen_scale>>

\* IcedContext::display_in_window.
display_in_window(element, w, m) ==
    \/ display_in_window_panic(w, "display_in_window")
    \/ display_in_window_enter(element, w, m, "display_in_window")

\* IcedContext::display when the primary window query yields no single
\* entity: nothing is done.
display_nothing ==
    /\ LogicIdle
    /\ get_single(primary_window) = None
    /\ last_call' = "display"
    /\ UNCHANGED <<logic_vars, renderer_vars, call_vars, render_vars, panicked>>
    /\ UNCHANGED <<disp_count, true_count, drawn_since, drawn_fresh, last_used,
                   retired, swept, event_history>>

\* IcedContext::display.
display(element, m) ==
    \/ /\ IsSome(get_single(primary_window))
       /\ \/ display_in_window_panic(Unwrap(get_single(primary_window)), "display")
          \/ display_in_window_enter(element, Unwrap(get_single(primary_window)), m,
                                     "display")
    \/ display_nothing


\* ------------------------------------------------------------ the extraction
\* AtomicBool::load in place of the swap: the flag keeps its value.
load(flag, value) == [returned |-> flag, stored |-> flag]

\* AtomicBool::swap: the value read and the value the flag holds afterwards.
swap(flag, value) == [returned |-> flag, stored |-> value]

\* The `windows` query of extract_iced_data: (Entity, &WindowViewport, &DidDraw).
extract_query == {w \in Entities : IsSome(viewport[w]) /\ IsSome(did_draw[w])}

\* The ExtractedIcedWindow of a window: its viewport and the flag read by
\* the swap.
ExtractedIcedWindow(w) ==
    [viewport |-> Unwrap(viewport[w]),
     did_draw |-> swap(Unwrap(did_draw[w]), FALSE).returned]

\* A copy of the registry that holds no handle.
clone_empty(registry) == [w \in Entities |-> None]

\* Clone of IcedRenderers: the handles (Arc) are copied, not the renderers.
clone(registry) == registry

\* An extraction that inserts into the snapshot of the previous frame.
extract_iced_data_merge ==
    /\ LogicIdle
    /\ node_pc = "idle"
    /\ extracted' = [w \in Entities |->
                        IF w \in extract_query THEN Some(ExtractedIcedWindow(w))
                        ELSE extracted[w]]
    /\ did_draw' = [w \in Entities |->
                        IF w \in extract_query
                        THEN Some(swap(Unwrap(did_draw[w]), FALSE).stored)
                        ELSE did_draw[w]]
    /\ r_renderers' = clone(renderers)
    /\ x_windows' = {w \in Entities : IsSome(window[w])}
    /\ node_pc' = "update"
    /\ true_count' = [w \in Entities |->
                        IF w \in extract_query /\ ExtractedIcedWindow(w).did_draw
                        THEN true_count[w] + 1 ELSE true_count[w]]
    /\ drawn_since' = [w \in Entities |-> FALSE]
    /\ drawn_fresh' = [w \in Entities |-> FALSE]
    /\ swept' = UNION {retired[w] : w \in Entities}
    /\ last_call' = ""
    /\ UNCHANGED <<window, viewport, despawned, closed_events, scale_setting,
                   renderers, cache, events, channel>>
    /\ UNCHANGED <<renderer_vars, call_vars, visited, node_cur, belt, presented, panicked>>
    /\ UNCHANGED <<disp_count, last_used, retired, event_history>>

\* extract_iced_data, with the host's own extraction of its windows: it runs
\* between the frames of the logic world and after the render world has
\* finished its previous frame.
extract_iced_data ==
    /\ LogicIdle
    /\ node_pc = "idle"
    /\ extracted' = [w \in Entities |->
                        IF w \in extract_query THEN Some(ExtractedIcedWindow(w))
                        ELSE None]
    /\ did_draw' = [w \in Entities |->
                        IF w \in extract_query
                        THEN Some(swap(Unwrap(did_draw[w]), FALSE).stored)
                        ELSE did_draw[w]]
    /\ r_renderers' = clone(renderers)
    /\ x_windows' = {w \in Entities : IsSome(window[w])}
    /\ node_pc' = "update"
    /\ true_count' = [w \in Entities |->
                        IF w \in extract_query /\ ExtractedIcedWindow(w).did_draw
                        THEN true_count[w] + 1 ELSE true_count[w]]
    /\ drawn_since' = [w \in Entities |-> FALSE]
    /\ drawn_fresh' = [w \in Entities |-> FALSE]
    /\ swept' = UNION {retired[w] : w \in Entities}
    /\ last_call' = ""
    /\ UNCHANGED <<window, viewport, despawned, closed_events, scale_setting,
                   renderers, cache, events, channel>>
    /\ UNCHANGED <<renderer_vars, call_vars, visited, node_cur, belt, presented, panicked>>
    /\ UNCHANGED <<disp_count, last_used, retired, event_history>>

\* ------------------------------------------------------------ the render node
\* An update that leaves the staging belt as the previous frame finished it.
IcedNode_update_no_recall ==
    /\ Running
    /\ node_pc = "update"
    /\ belt' = <<>>
    /\ node_pc' = "run"
    /\ UNCHANGED <<logic_vars, renderer_vars, call_vars, extracted, r_renderers,
                   x_windows, visited, node_cur, presented, panicked, history_vars>>

\* IcedNode::update: the staging belt is recalled.
IcedNode_update ==
    /\ Running
    /\ node_pc = "update"
    /\ belt' = <<<<"recall">>>>
    /\ node_pc' = "run"
    /\ UNCHANGED <<logic_vars, renderer_vars, call_vars, extracted, r_renderers,
                   x_windows, visited, node_cur, presented, panicked, history_vars>>

\* The test of line 95 left out: no window counts as not drawn.
not_drawn_never(extracted_window) == FALSE

\* IcedNode::run, line 95: the draw flag captured for the window is false.
not_drawn(extracted_window) == ~extracted_window.did_draw

\* The loop of IcedNode::run passes a window without touching its renderer.
node_continue(w) ==
    /\ visited' = visited \cup {w}
    /\ UNCHANGED <<logic_vars, renderer_vars, call_vars, extracted, r_renderers,
                   x_windows, node_pc, node_cur, belt, presented, panicked, history_vars>>

\* backend.present inside with_primitives: the primitives the renderer holds
\* are presented to the view of the window.
present(w, renderer) ==
    [window |-> w, renderer |-> renderer, frame |-> primitives[renderer]]

\* IcedNode::run, lines 94-118, one round of the loop over the extracted
\* windows (a HashMap: any order) up to the end of the round or to the lock
\* of the renderer, which the round that presents acquires (it waits while
\* a display call holds it).
IcedNode_run_window(w) ==
    /\ Running
    /\ node_pc = "run"
    /\ node_cur = None
    /\ IsSome(extracted[w])
    /\ w \notin visited
    /\ \/ /\ not_drawn(Unwrap(extracted[w]))
          /\ node_continue(w)
       \/ /\ ~not_drawn(Unwrap(extracted[w]))
          /\ w \notin x_windows
          /\ panicked' = [at |-> "IcedNode_run", window |-> w]
          /\ UNCHANGED <<logic_vars, renderer_vars, call_vars, render_vars,
                         history_vars>>
       \/ /\ ~not_drawn(Unwrap(extracted[w]))
          /\ w \in x_windows
          /\ r_renderers[w] = None
          /\ node_continue(w)
       \/ /\ ~not_drawn(Unwrap(extracted[w]))
          /\ w \in x_windows
          /\ IsSome(r_renderers[w])
          /\ LET renderer == Unwrap(r_renderers[w])
                 locked == mutex_lock(lock[renderer], "node")
             IN /\ locked.acquired
                /\ lock' = [lock EXCEPT ![renderer] = locked.mutex]
          /\ node_cur' = Some(w)
          /\ UNCHANGED <<logic_vars, n_renderers, n_frames, primitives, call_vars,
                         extracted, r_renderers, x_windows, node_pc, visited, belt,
                         presented, panicked, history_vars>>

\* IcedNode::run, lines 119-137: the primitives of the locked renderer are
\* presented and the lock is released at the end of the round.
IcedNode_run_present ==
    /\ Running
    /\ node_pc = "run"
    /\ IsSome(node_cur)
    /\ LET w == Unwrap(node_cur)
           renderer == Unwrap(r_renderers[w])
       IN /\ presented' = Append(presented, present(w, renderer))
          /\ belt' = Append(belt, <<"present", w>>)
          /\ visited' = visited \cup {w}
          /\ lock' = [lock EXCEPT ![renderer] = "free"]
    /\ node_cur' = None
    /\ UNCHANGED <<logic_vars, n_renderers, n_frames, primitives, call_vars, extracted,
                   r_renderers, x_windows, node_pc, panicked, history_vars>>

\* IcedNode::run, lines 140-142: after the loop the staging belt is finished.
IcedNode_run_finish ==
    /\ Running
    /\ node_pc = "run"
    /\ visited = {w \in Entities : IsSome(extracted[w])}
    /\ belt' = Append(belt, <<"finish">>)
    /\ node_pc' = "idle"
    /\ visited' = {}
    /\ UNCHANGED <<logic_vars, renderer_vars, call_vars, extracted, r_renderers,
                   x_windows, node_cur, presented, panicked, history_vars>>

\* ------------------------------------------------------------ specification
\* The steps inside a display call and inside the render node.
Steps ==
    \/ display_in_window_locked
    \/ extract_iced_data
    \/ IcedNode_update
    \/ \E w \in Entities : IcedNode_run_window(w)
    \/ IcedNode_run_present
    \/ IcedNode_run_finish

\* The frame protocol: the windows `ws` come and go (closed with one of the
\* `despawns`), one UI description is displayed in them, the frames are
\* extracted and presented.
Frames(ws, despawns) ==
    \/ \E w \in ws : handle_window_created(w, Window(800, 600, 1))
    \/ \E w \in ws, despawn \in despawns : window_closed(w, despawn)
    \/ \E w \in ws : handle_window_closed(w)
    \/ \E w \in ws : display_in_window("text", w, "M1")
    \/ display("text", "M1")
    \/ Steps

\* One window through all of its life: created, closed with or without the
\* despawn of its entity, created again.
Next == Frames({"w1"}, BOOLEAN)

Spec == Init /\ [][Next]_vars

\* Two windows, each created once and despawned when closed.
NextTwo == Frames(Entities, {TRUE})

SpecTwo == Init /\ [][NextTwo]_vars

\* The viewport of one window: it is created, resized and despawned, the
\* scale factor of the settings changes, a UI description is displayed in
\* it, the frames are extracted and presented.
NextViewport ==
    \/ \E win \in HostWindows : handle_window_created("w1", win)
    \/ \E win \in HostWindows : handle_window_resized("w1", win)
    \/ \E factor \in ScaleFactors : set_scale_factor(factor)
    \/ window_closed("w1", TRUE)
    \/ handle_window_closed("w1")
    \/ display_in_window("text", "w1", "M1")
    \/ Steps

SpecViewport == Init /\ [][NextViewport]_vars

\* The UI cycle: the windows are created, input events are queued and UI
\* descriptions of two message types are displayed in the windows.
NextUi ==
    \/ \E w \in Entities : handle_window_created(w, Window(800, 600, 1))
    \/ \E ev \in InputEvents : process_input(ev)
    \/ \E element \in Elements, w \in Entities, m \in MessageTypes :
          display_in_window(element, w, m)
    \/ \E element \in Elements, m \in MessageTypes : display(element, m)
    \/ display_in_window_locked

SpecUi == Init /\ [][NextUi]_vars

\* The cache map alone.  It starts as any map the program leaves behind
\* between two calls (an entry is missing or holds the cache of a cycle);
\* the cache of a message type is taken, put back as it is, and taken again.
CacheMaps == [MessageTypes -> {None} \cup {Some(Some(c)) : c \in 0..MaxFrames}]

InitCache == \E entries \in CacheMaps : InitWith(entries)

\* Lines 245-246 on their own.
cache_round_take(m) ==
    /\ pc \in {"idle", "back"}
    /\ pc = "back" => m = call.message
    /\ LET taken == cache_take(cache, m)
       IN /\ cache' = taken.entries
          /\ call' = [NoCall EXCEPT !.message = m, !.cache = taken.cache]
    /\ pc' = IF pc = "idle" THEN "taken" ELSE "retaken"
    /\ UNCHANGED <<window, viewport, did_draw, despawned, closed_events, scale_setting,
                   renderers, events, channel>>
    /\ UNCHANGED <<renderer_vars, render_vars, panicked, history_vars>>

\* Line 272 on its own, with the cache that was taken.
cache_round_put_back ==
    /\ pc = "taken"
    /\ cache' = put_back(cache, call.message, call.cache)
    /\ pc' = "back"
    /\ UNCHANGED <<window, viewport, did_draw, despawned, closed_events, scale_setting,
                   renderers, events, channel>>
    /\ UNCHANGED <<renderer_vars, call, render_vars, panicked, history_vars>>

NextCache ==
    \/ \E m \in MessageTypes : cache_round_take(m)
    \/ cache_round_put_back

SpecCache == InitCache /\ [][NextCache]_vars

\* ------------------------------------------------------------------ claims
\* Steps of the operations, as the properties recognise them.
ExtractionStep == node_pc = "idle" /\ node_pc' = "update"
DisplayReturns(w) == pc = "locked" /\ pc' = "idle" /\ call.window = w
DisplayEnters(w) == pc = "idle" /\ pc' = "locked" /\ call'.window = w
CreatedStep(w) == window[w] = None /\ IsSome(window'[w])
FlagIs(flags, w, value) == flags[w] = Some(value)

\* C1: for one window, the extractions that captured did_draw = true are
\* never more than the completed display_in_window calls, and an extraction
\* captures true only if a display_in_window call for the window has
\* completed since the extraction before it: between two extractions that
\* capture true lies a completed call.
C1_TrueExtractionsBounded ==
    [][\A w \in Entities :
          /\ true_count'[w] <= disp_count'[w]
          /\ (ExtractionStep /\ IsSome(extracted'[w]) /\ Unwrap(extracted'[w]).did_draw)
                => drawn_since[w]
          /\ true_count'[w] > true_count[w] => ExtractionStep /\ drawn_since[w]]_vars

\* Three calls, two of them before one extraction: two extractions captured
\* true, a third one in between or after captured false.
C1_Witness ==
    /\ disp_count["w1"] = 3
    /\ true_count["w1"] = 2
    /\ extracted["w1"] = Some([viewport |-> with_physical_size(800, 600, 1),
                               did_draw |-> FALSE])

\* C2 as stated: the flag of a window is true exactly if a display_in_window
\* call for it completed since the most recent extraction; only
\* display_in_window sets it, only extract_iced_data clears it.
C2_FlagSinceExtraction ==
    [][\A w \in Entities :
          /\ IsSome(did_draw'[w]) => (Unwrap(did_draw'[w]) = drawn_since'[w])
          /\ (~FlagIs(did_draw, w, TRUE) /\ FlagIs(did_draw', w, TRUE))
                => DisplayReturns(w)
          /\ (FlagIs(did_draw, w, TRUE) /\ FlagIs(did_draw', w, FALSE))
                => ExtractionStep]_vars

\* C2 amended: the flag of a window is true exactly if a display_in_window
\* call for it completed since the most recent extraction or window-created
\* event of the window; only display_in_window sets it; only
\* extract_iced_data and handle_window_created (a fresh flag) clear it.
C2_FlagSinceExtractionOrCreation ==
    [][\A w \in Entities :
          /\ IsSome(did_draw'[w]) => (Unwrap(did_draw'[w]) = drawn_fresh'[w])
          /\ (~FlagIs(did_draw, w, TRUE) /\ FlagIs(did_draw', w, TRUE))
                => DisplayReturns(w)
          /\ (FlagIs(did_draw, w, TRUE) /\ FlagIs(did_draw', w, FALSE))
                => ExtractionStep \/ CreatedStep(w)]_vars

\* The window was displayed, closed without a despawn and created again: its
\* flag is false with no extraction since the call.
C2_Witness ==
    /\ FlagIs(did_draw, "w1", FALSE)
    /\ drawn_since["w1"]
    /\ ~drawn_fresh["w1"]

\* The backend.present calls that presented frame f.
Presentations(f) == {i \in DOMAIN presented : presented[i].frame = f}

\* C3: every frame of primitives drawn by a display_in_window call is
\* presented at most once.
C3_FramePresentedAtMostOnce ==
    \A f \in FrameIds : Cardinality(Presentations(f)) <= 1

\* The windows the running or last node run has presented.
PresentedInRun == {w \in Entities : \E i \in DOMAIN belt : belt[i] = <<"present", w>>}
CapturedFalse(w) == IsSome(extracted[w]) /\ ~Unwrap(extracted[w]).did_draw
InNodeRun == node_pc = "run" \/ (node_pc = "idle" /\ belt # <<>>)

\* C4: a window whose captured draw flag is false is not presented by the
\* node run of that frame, whatever the other windows did, and the loop
\* passes it without taking the lock of its renderer: the round is enabled
\* also while a display call holds that lock.
C4_SkipsUndrawnWindow ==
    \A w \in Entities :
        /\ (InNodeRun /\ CapturedFalse(w)) => w \notin PresentedInRun
        /\ (Running /\ node_pc = "run" /\ node_cur = None /\ CapturedFalse(w)
               /\ w \notin visited)
              => ENABLED IcedNode_run_window(w)

\* A finished node run that presented w2 and passed w1, whose captured flag
\* was false although it has a renderer.
C4_Witness ==
    /\ node_pc = "idle"
    /\ CapturedFalse("w1")
    /\ IsSome(r_renderers["w1"])
    /\ PresentedInRun = {"w2"}

\* The renderer instances created so far are the ones in the registry and
\* the ones handle_window_closed removed.
Registered == {w \in Entities : IsSome(renderers[w])}
Retired == UNION {retired[w] : w \in Entities}

\* C5: while no window-closed event is handled for a window, every
\* display_in_window call for it uses the renderer instance of its first
\* call, which stays in the registry; no instance is created beyond the
\* registered and the removed ones.
C5_RendererStable ==
    /\ \A w \in Entities : IsSome(last_used[w]) => renderers[w] = last_used[w]
    /\ (pc = "locked" /\ IsSome(last_used[call.window]))
          => call.renderer = Unwrap(last_used[call.window])
    /\ n_renderers = Cardinality(Registered) + Cardinality(Retired)

\* The third call for the window uses the one instance ever created.
C5_Witness ==
    /\ pc = "locked"
    /\ call.window = "w1"
    /\ disp_count["w1"] = 2
    /\ n_renderers = 1
    /\ call.renderer = 1

\* The holders of renderer instance r in the two worlds.
LogicHolders(r) == {w \in Entities : renderers[w] = Some(r)}
RenderHolders(r) == {w \in Entities : r_renderers[w] = Some(r)}

\* C6 as stated: a renderer instance that handle_window_closed removed is
\* referenced by no holder in either world.
C6_RemovedIsUnreferenced ==
    \A r \in Retired : LogicHolders(r) = {} /\ RenderHolders(r) = {}

\* C6 amended: a renderer instance that handle_window_closed removed is no
\* longer referenced by the registry of the logic world; the copy of the
\* render world may reference it until the next extraction replaces the
\* copy, and does not reference it afterwards.
C6_RemovedIsUnreferencedAfterExtraction ==
    \A r \in Retired :
        /\ LogicHolders(r) = {}
        /\ r \in swept => RenderHolders(r) = {}

\* A removed instance that the render world referenced after the removal
\* and no longer references after the next extraction.
C6_Witness ==
    /\ 1 \in retired["w1"]
    /\ 1 \in swept
    /\ presented # <<>>
    /\ RenderHolders(1) = {}

\* C7: the first display_in_window call for a window after
\* handle_window_closed removed its renderer creates a new renderer
\* instance, which is none of the removed ones, and registers it.
C7_NewRendererAfterClose ==
    [][\A w \in Entities :
          (DisplayEnters(w) /\ retired[w] # {} /\ last_used[w] = None)
             => /\ n_renderers' = n_renderers + 1
                /\ call'.renderer = n_renderers'
                /\ call'.renderer \notin retired[w]
                /\ renderers'[w] = Some(call'.renderer)]_vars

\* A call in progress on the second instance of the window, its first one
\* having been removed.
C7_Witness ==
    /\ pc = "locked"
    /\ call.window = "w1"
    /\ retired["w1"] = {1}
    /\ call.renderer = 2

\* No entity carries both the PrimaryWindow marker and a viewport.
NoPrimaryWindow == \A w \in PrimaryWindow : viewport[w] = None
\* A display call is made: it is the call of the frame now, or a
\* display_in_window call begins.
DisplayCalled == last_call' = "display" /\ (last_call # "display" \/ pc' # pc)

\* C8: display called while no primary window with a viewport exists does
\* not fail, sends no message and leaves the renderer registry, the renderer
\* instances, the cache entries, the draw flags and the pending input event
\* queue as they are.
C8_DisplayWithoutPrimaryWindow ==
    [][(DisplayCalled /\ NoPrimaryWindow)
          => /\ panicked' = NoPanic
             /\ pc' = "idle"
             /\ UNCHANGED <<renderers, cache, did_draw, events, channel>>
             /\ UNCHANGED <<renderer_vars, call>>]_vars

\* display was called with no primary window while events were pending and
\* the other window had a renderer, a set draw flag and a cache entry.
C8_Witness ==
    /\ last_call = "display"
    /\ NoPrimaryWindow
    /\ pc = "idle"
    /\ Len(events) = 2
    /\ IsSome(renderers["w2"])
    /\ FlagIs(did_draw, "w2", TRUE)
    /\ IsSome(cache["M1"])

\* The window is known to the `windows` query of the display call.
KnownWindow(w) == IsSome(window[w]) /\ IsSome(viewport[w])
\* A display_in_window call for w is made: it begins or it panics.
DisplayInWindowCalled(w) ==
    \/ DisplayEnters(w)
    \/ panicked = NoPanic /\ panicked' = [at |-> "display_in_window", window |-> w]

\* C9: display_in_window called for a window with no known viewport
\* panics, and the panic comes before any change: the registry, the
\* renderer instances, the cache entries, the draw flags, the channel and
\* the pending input event queue are as they were.
C9_UnknownWindowFailsFirst ==
    [][\A w \in Entities :
          (DisplayInWindowCalled(w) /\ ~KnownWindow(w))
             => /\ panicked' = [at |-> "display_in_window", window |-> w]
                /\ UNCHANGED <<renderers, cache, did_draw, events, channel>>
                /\ UNCHANGED <<renderer_vars, pc, call>>]_vars

\* A call for the window that was never created panicked while events were
\* pending and the other window had been displayed.
C9_Witness ==
    /\ panicked = [at |-> "display_in_window", window |-> "w2"]
    /\ window["w2"] = None
    /\ Len(events) = 2
    /\ IsSome(renderers["w1"])
    /\ IsSome(cache["M1"])

\* C10: a display_in_window call that returns has appended to the channel of
\* its message type exactly the messages the update of its UI emitted for
\* the pending events, in the order of their emission and once; it has sent
\* nothing to the other channels, and the pending input event queue is empty.
C10_MessagesDeliveredInOrder ==
    [][\A w \in Entities :
          DisplayReturns(w)
             => /\ channel'[call.message] =
                      channel[call.message] \o ui_update(call.element, events)
                /\ \A m \in MessageTypes \ {call.message} : channel'[m] = channel[m]
                /\ events' = <<>>]_vars

\* One click on the button was pending: [A, B] was delivered to the channel
\* of the message type, the other channel is empty, and so is the queue.
C10_Witness ==
    /\ pc = "idle"
    /\ channel["M1"] = <<"A", "B">>
    /\ channel["M2"] = <<>>
    /\ events = <<>>
    /\ disp_count["w1"] = 1

\* C11: every queued input event is applied to at most one UI cycle.  The
\* events queued so far are the ones still pending and the ones passed to an
\* update, each once; a display_in_window call that returns was passed the
\* whole pending queue and leaves it empty, so that the next call, for this
\* or another window, is passed none of them; only such a call applies
\* events.
C11_EventsAppliedOnce ==
    [][/\ n_applied' + Len(events') = n_queued'
       /\ \A w \in Entities :
             DisplayReturns(w) => n_applied' - n_applied = Len(events) /\ events' = <<>>
       /\ n_applied' # n_applied => \E w \in Entities : DisplayReturns(w)
       /\ (\E w \in Entities : DisplayEnters(w)) => events' = events]_vars

\* Two events were queued and passed to a call for w1; the call for w2 that
\* followed with no event queued in between was passed none, and a third
\* event is pending.
C11_Witness ==
    /\ pc = "idle"
    /\ disp_count["w1"] = 1
    /\ disp_count["w2"] = 1
    /\ channel["M1"] = <<"A", "B", "A", "B">>
    /\ channel["M2"] = <<>>
    /\ n_applied = 2
    /\ n_queued = 3
    /\ Len(events) = 1

\* C12: outside a display_in_window call in progress no entry of the cache
\* map is left empty, and an entry, once made, stays; while a call is in
\* progress the entry of its message type is empty; when the call returns
\* the entry holds the cache of the UI of that cycle, which is a new one.
C12_CacheEntryPresent ==
    [][\A m \in MessageTypes :
          /\ pc' = "idle" => cache'[m] # Some(None)
          /\ (pc' = "locked" /\ call'.message = m) => cache'[m] = Some(None)
          /\ ((\E w \in Entities : DisplayReturns(w)) /\ call.message = m)
                => /\ cache'[m] = Some(Some(n_frames'))
                   /\ n_frames' # call.cache
          /\ cache[m] # None => cache'[m] # None]_vars

\* Both message types were used; the entry of M1 holds the cache of the
\* third cycle, which replaced the one of an earlier cycle.
C12_Witness ==
    /\ pc = "idle"
    /\ cache["M1"] = Some(Some(3))
    /\ cache["M2"] = Some(Some(2))

\* C13: to take the cache of a message type and to put the same cache back
\* at once leaves the map as a take sees it: the next take for the message
\* type returns the same cache and leaves the same map, and the entries of
\* the other message types are as they were.
C13_TakePutBackRoundTrip ==
    \A m \in MessageTypes :
        LET first == cache_take(cache, m)
            back == put_back(first.entries, m, first.cache)
            second == cache_take(back, m)
        IN /\ second.cache = first.cache
           /\ second.entries = first.entries
           /\ \A other \in MessageTypes \ {m} : back[other] = cache[other]

\* The cache of the second cycle was taken for M1, put back and taken
\* again, while M2 has no entry.
C13_Witness ==
    /\ pc = "retaken"
    /\ call.message = "M1"
    /\ call.cache = 2
    /\ cache["M1"] = Some(None)
    /\ cache["M2"] = None

\* The positions of an operation in the staging belt's log of the frame.
BeltOps(op) == {i \in DOMAIN belt : belt[i] = op}
BeltPresents == {i \in DOMAIN belt : belt[i][1] = "present"}

\* C14: the staging belt is recalled once, before the first present call of
\* the frame; a node run that completes has finished the belt exactly once,
\* after the present calls of all the windows of the frame, however many
\* there were; a run still in its loop has not finished it.
C14_BeltFinishedOnce ==
    /\ node_pc = "run"
          => /\ BeltOps(<<"recall">>) = {1}
             /\ BeltOps(<<"finish">>) = {}
             /\ BeltPresents = 2..Len(belt)
    /\ (node_pc = "idle" /\ belt # <<>>)
          => /\ BeltOps(<<"recall">>) = {1}
             /\ BeltOps(<<"finish">>) = {Len(belt)}
             /\ BeltPresents = 2..(Len(belt) - 1)
             /\ Len(presented) >= Cardinality(BeltPresents)

\* A completed node run of a frame in which no window drew.
C14_NoneDrew == node_pc = "idle" /\ belt = <<<<"recall">>, <<"finish">>>>

\* A completed node run of a frame in which both windows drew.
C14_Witness ==
    /\ node_pc = "idle"
    /\ Len(belt) = 4
    /\ belt[1] = <<"recall">>
    /\ BeltPresents = {2, 3}
    /\ belt[4] = <<"finish">>

\* The viewport of a window of the given size and native factor under the
\* given setting of the scale factor.
ExpectedViewport(win, setting) ==
    LET factor == IF setting = None THEN win.scale_factor ELSE setting[1]
    IN [physical_size |-> <<win.physical_width, win.physical_height>>,
        logical_size |-> <<win.physical_width \div factor, win.physical_height \div factor>>,
        scale_factor |-> factor]
\* A window-created or window-resized event of w is handled, or w is despawned.
WindowEventStep(w) ==
    \/ window'[w] # window[w]
    \/ seen_scale'[w] # seen_scale[w]
\* A step of a display call, of the extraction, of the render node or of
\* set_scale_factor.
OtherStep ==
    \/ pc' # pc
    \/ node_pc' # node_pc
    \/ visited' # visited
    \/ node_cur' # node_cur
    \/ scale_setting' # scale_setting

\* C16: the viewport of a window, whenever display_in_window is called for
\* it, is the one computed from the physical size of the window and the
\* scale factor (the override of the settings if it was set, else the
\* window's own) as they were when its last window-created or
\* window-resized event was handled; a display call, the extraction, the
\* node run and a change of the setting leave every viewport as it is.
C16_ViewportOfLastWindowEvent ==
    [][/\ \A w \in Entities :
             /\ (IsSome(window'[w]) /\ IsSome(viewport'[w]))
                   => viewport'[w] = Some(ExpectedViewport(Unwrap(window'[w]), seen_scale'[w]))
             /\ DisplayEnters(w)
                   => viewport[w] = Some(ExpectedViewport(Unwrap(window[w]), seen_scale[w]))
             /\ viewport'[w] # viewport[w] => WindowEventStep(w)
       /\ OtherStep => viewport' = viewport]_vars

\* A frame was displayed and presented in a window that was resized under
\* the override 2; the override has been reset since, and the viewport
\* still has the factor 2.
C16_Witness ==
    /\ window["w1"] = Some(Window(1600, 1200, 2))
    /\ viewport["w1"] = Some(with_physical_size(1600, 1200, 2))
    /\ scale_setting = None
    /\ seen_scale["w1"] = Some(2)
    /\ disp_count["w1"] > 0
    /\ presented # <<>>

\* The override in use: a window of native factor 1 has a viewport of
\* factor 2 and half the logical size.
C16_OverrideUsed ==
    /\ window["w1"] = Some(Window(800, 600, 1))
    /\ viewport["w1"] = Some([physical_size |-> <<800, 600>>,
                              logical_size |-> <<400, 300>>, scale_factor |-> 2])
    /\ pc = "locked"

\* C15: after an extraction the snapshot of the render world has an entry
\* for exactly the windows that carried a viewport and a draw flag when it
\* ran, each with the viewport the window had then; the entry of a window
\* that is gone is gone too.
C15_SnapshotRebuilt ==
    [][ExtractionStep
          => \A w \in Entities :
                /\ IsSome(extracted'[w]) <=> (IsSome(viewport[w]) /\ IsSome(did_draw[w]))
                /\ IsSome(extracted'[w])
                      => Unwrap(extracted'[w]).viewport = Unwrap(viewport[w])]_vars

\* Two frames of the window were presented, one of its window events was
\* handled under the override 2, and it was despawned: the extraction that
\* followed left no entry for it.
C15_Witness ==
    /\ node_pc = "update"
    /\ "w1" \in despawned
    /\ extracted["w1"] = None
    /\ Len(presented) = 2
    /\ seen_scale["w1"] = Some(2)

\* The draw flag captured for the window is true.
CapturedTrue(w) == IsSome(extracted[w]) /\ Unwrap(extracted[w]).did_draw
\* The loop of IcedNode::run takes its round for w: it passes the window,
\* locks its renderer or panics on it.
RoundOf(w) ==
    /\ node_pc = "run"
    /\ node_cur = None
    /\ w \notin visited
    /\ \/ w \in visited'
       \/ node_cur' = Some(w)
       \/ panicked' = [at |-> "IcedNode_run", window |-> w]

\* C17: the round of the node run for an extracted window whose captured
\* flag is true and whose renderer is missing in the render world's registry
\* passes the window with no panic, no present call and no lock taken, and
\* the run goes on to the other windows and to the finish of the belt.
C17_AbsentRendererSkipped ==
    [][\A w \in Entities :
          (RoundOf(w) /\ CapturedTrue(w) /\ r_renderers[w] = None)
             => /\ panicked' = NoPanic
                /\ w \in visited'
                /\ presented' = presented
                /\ lock' = lock
                /\ node_pc' = "run"]_vars

\* The skip of line 113 is reached: the window was passed with a true flag,
\* no renderer and no present call.
C17_SkipReached ==
    /\ node_pc = "run"
    /\ "w1" \in visited
    /\ CapturedTrue("w1")
    /\ r_renderers["w1"] = None
    /\ panicked = NoPanic

\* A display_in_window call is in its lock scope on renderer r.
DisplayHolds(r) == pc = "locked" /\ call.renderer = r
\* The render node is in its lock scope on renderer r.
NodeHolds(r) == IsSome(node_cur) /\ r_renderers[Unwrap(node_cur)] = Some(r)

\* C18: the lock scope of display_in_window and the lock scope of the
\* render node on one renderer instance never overlap; the lock of a
\* renderer is held exactly while one of the two is in its lock scope on
\* it, so that with no display call in progress and the node run over (as
\* it is when the extraction runs) no lock is held.
C18_LockScopesExclusive ==
    /\ \A r \in RendererIds :
          /\ ~(DisplayHolds(r) /\ NodeHolds(r))
          /\ lock[r] = "display" <=> DisplayHolds(r)
          /\ lock[r] = "node" <=> NodeHolds(r)
          /\ lock[r] \in {"free", "display", "node"}
    /\ pc = "idle" => \A r \in RendererIds : lock[r] # "display"
    /\ node_pc # "run" => \A r \in RendererIds : lock[r] # "node"
    /\ (pc = "idle" /\ node_pc = "idle") => \A r \in RendererIds : lock[r] = "free"

\* The node presents the frame of w1 while a display call draws into the
\* renderer of w2.
C18_Witness ==
    /\ node_cur = Some("w1")
    /\ lock[1] = "node"
    /\ primitives[1] > 0
    /\ pc = "locked"
    /\ call.window = "w2"
    /\ lock[2] = "display"

\* A display call for w1 waits for the lock the node holds on its renderer.
C18_DisplayWaits ==
    /\ node_cur = Some("w1")
    /\ pc = "idle"
    /\ windows_get("w1")
    /\ n_frames < MaxFrames
    /\ ~ENABLED display_in_window_enter("text", "w1", "M1", "display_in_window")

====
